---- MODULE Spec2Model ----
(***************************************************************************)
(* tools/sample_idxs_to_text.py: the script that dumps the training        *)
(* samples of a range of consumed-sample indices, as token ids and/or as   *)
(* detokenized text.  One run of the script is a straight-line program;    *)
(* pc is its position, the other variables are its locals, the torch       *)
(* print threshold and the two output channels (stdout, the output file).  *)
(* The dataset, the sampler and the tokenizer are the framework's; they    *)
(* are modelled as deterministic functions of the arguments.               *)
(***************************************************************************)
EXTENDS Integers, Sequences, FiniteSets

VARIABLES args, pc, err, num_samples_requested, train_ds, train_dataloader,
          data_iterator, splits_read, print_threshold, fh, file_content,
          stdout, i, steps, prev

vars == <<args, pc, err, num_samples_requested, train_ds, train_dataloader,
          data_iterator, splits_read, print_threshold, fh, file_content,
          stdout, i, steps, prev>>

\* ------------------------------------------------------------- bounds
\* Largest sample index a user passes in --sample-id-range.
MaxIdx == 3
\* Largest --train-samples.
MaxTrain == 2

Seeds == {1, 2}
SeqLengths == {1, 2}
\* What the user may pass as --micro-batch-size on the command line.
UserBatchSizes == {1, 2}
\* Samples the index map holds beyond --train-samples (whole epochs are mapped).
ExtraSamples == {0, 1}
None == "None"
OutputFiles == {None, "", "out.txt"}

\* --sample-id-range has nargs='+': one value, two values, or more (the
\* values after the second are never read).
SampleIdRanges ==
  {<<a>> : a \in 0..MaxIdx}
    \cup {<<a, b>> : a \in 0..MaxIdx, b \in 0..MaxIdx}
    \cup {<<a, b, 0>> : a \in 0..MaxIdx, b \in 0..MaxIdx}

\* ---------------------------------------------------- argument plumbing
\* The prefilled arguments are appended to the user's command line.
sys_argv_prepended(user_mbs) == <<1, user_mbs>>
sys_argv(user_mbs) == <<user_mbs, 1>>

\* argparse keeps the last occurrence of an option.
micro_batch_size(user_mbs) == sys_argv(user_mbs)[Len(sys_argv(user_mbs))]

PrintFlagsNoneTest(a) == TRUE
\* not (args.print_tokens or args.print_text) raises.
PrintFlagsOk(a) == a.print_tokens \/ a.print_text

AllTokensAnyPrint(a) == a.all_tokens => (a.print_tokens \/ a.print_text)
\* args.all_tokens and not args.print_tokens raises.
AllTokensOk(a) == ~(a.all_tokens /\ ~a.print_tokens)

\* ------------------------------------------------- framework: datasets
\* The tokenizer's vocabulary: token id t (from 0) is the piece Vocab[t+1].
Vocab == << <<"a">>, <<"b">>, <<"a", "b">>, <<"c">>, <<" ">>, <<" ", "c">>, <<"d">> >>

\* The sample at position idx of the ordering that seed, train-samples and
\* seq-length determine: seq_length + 1 token ids.
SampleAt(ds, idx) ==
  [j \in 1..(ds.seq_length + 1) |->
      (ds.seed + 2 * ds.num_samples + 3 * idx + j) % Len(Vocab)]

RequestAllSplits(a) == <<a.train_samples, a.train_samples, a.train_samples>>
\* train_valid_test_num_samples=[args.train_samples, 0, 0]
TrainValidTestNumSamples(a) == <<a.train_samples, 0, 0>>

\* build_train_valid_test_datasets: one dataset per split.
BuildDataset(a, split, n) ==
  [split |-> split, num_samples |-> n, len |-> IF n = 0 THEN 0 ELSE n + a.extra,
   seed |-> a.seed, seq_length |-> a.seq_length]

FastForwardFromZero(a) == 0
\* build_pretraining_data_loader(train_ds, args.sample_id_range[0])
ConsumedSamples(a) == a.sample_id_range[1]

\* build_train_valid_test_datasets returns (train, valid, test).
build_train_valid_test_datasets(a, nums) ==
  <<BuildDataset(a, "train", nums[1]), BuildDataset(a, "valid", nums[2]),
    BuildDataset(a, "test", nums[3])>>

\* --------------------------------------------------------- formatting
RECURSIVE Concat(_)
Concat(ss) == IF ss = <<>> THEN <<>> ELSE Head(ss) \o Concat(Tail(ss))

\* tokenizer.detokenize(tokens.tolist()): the pieces, concatenated.
Detokenize(toks) ==
  [fmt |-> "text", chars |-> Concat([k \in 1..Len(toks) |-> Vocab[toks[k] + 1]])]

\* str(tensor): every element, or the three first and three last ones when
\* the tensor holds more elements than the print threshold.
TensorStr(toks, threshold) ==
  IF Len(toks) > threshold
    THEN [fmt |-> "tensor", elided |-> TRUE,
          items |-> SubSeq(toks, 1, 3) \o SubSeq(toks, Len(toks) - 2, Len(toks))]
    ELSE [fmt |-> "tensor", elided |-> FALSE, items |-> toks]

Record(label, body) == [label |-> label, body |-> body]
StatusLine(text, n) == [fmt |-> "status", text |-> text, n |-> n]
IsRecord(line) == "label" \in DOMAIN line

\* The records a run has written, wherever write() sent them.
Records(out, file) == SelectSeq(out, IsRecord) \o file

\* ------------------------------------------------------------- actions
ArgSpace ==
  [print_tokens : BOOLEAN, print_text : BOOLEAN, all_tokens : BOOLEAN,
   output_file : OutputFiles, sample_id_range : SampleIdRanges,
   train_samples : 1..MaxTrain, seed : Seeds, seq_length : SeqLengths,
   user_mbs : UserBatchSizes, extra : ExtraSamples]

NoDs == [split |-> "none"]
NoRun == [pc |-> "none"]

Init ==
  /\ args \in ArgSpace
  /\ pc = "check_print"
  /\ err = None
  /\ num_samples_requested = <<>>
  /\ train_ds = NoDs
  /\ train_dataloader = NoDs
  /\ data_iterator = NoDs
  /\ splits_read = {}
  /\ print_threshold = 1000
  /\ fh = "none"
  /\ file_content = <<>>
  /\ stdout = <<>>
  /\ i = -1
  /\ steps = 0
  /\ prev = NoRun

Raise(e) == pc' = "error" /\ err' = e

CheckPrintFlags ==
  /\ pc = "check_print"
  /\ IF PrintFlagsOk(args)
       THEN pc' = "check_all" /\ UNCHANGED err
       ELSE Raise("ValueError")
  /\ UNCHANGED <<args, num_samples_requested, train_ds, train_dataloader,
                 data_iterator, splits_read, print_threshold, fh, file_content,
                 stdout, i, steps, prev>>

CheckAllTokens ==
  /\ pc = "check_all"
  /\ IF AllTokensOk(args)
       THEN pc' = "build_ds" /\ UNCHANGED err
       ELSE Raise("ValueError")
  /\ UNCHANGED <<args, num_samples_requested, train_ds, train_dataloader,
                 data_iterator, splits_read, print_threshold, fh, file_content,
                 stdout, i, steps, prev>>

BuildDatasets ==
  /\ pc = "build_ds"
  /\ num_samples_requested' = TrainValidTestNumSamples(args)
  /\ train_ds' =
       build_train_valid_test_datasets(args, TrainValidTestNumSamples(args))[1]
  /\ pc' = "build_loader"
  /\ UNCHANGED <<args, err, train_dataloader, data_iterator, splits_read,
                 print_threshold, fh, file_content, stdout, i, steps, prev>>

\* The sampler asserts consumed_samples < total_samples.
BuildLoader ==
  /\ pc = "build_loader"
  /\ LET ds == train_ds
         c  == ConsumedSamples(args)
     IN IF c < ds.len
          THEN /\ train_dataloader' =
                    [ds |-> ds, consumed_samples |-> c,
                     batch |-> micro_batch_size(args.user_mbs)]
               /\ data_iterator' = [ds |-> ds, pos |-> c]
               /\ pc' = "print_opts"
               /\ UNCHANGED err
          ELSE /\ Raise("AssertionError")
               /\ UNCHANGED <<train_dataloader, data_iterator>>
  /\ UNCHANGED <<args, num_samples_requested, train_ds, splits_read,
                 print_threshold, fh, file_content, stdout, i, steps, prev>>

SetPrintOptions ==
  /\ pc = "print_opts"
  /\ print_threshold' = IF args.all_tokens THEN 2^20 ELSE print_threshold
  /\ pc' = "open_out"
  /\ UNCHANGED <<args, err, num_samples_requested, train_ds, train_dataloader,
                 data_iterator, splits_read, fh, file_content, stdout, i,
                 steps, prev>>

\* open("") fails; any other name is opened for writing.
OpenOutput ==
  /\ pc = "open_out"
  /\ IF args.output_file # None
       THEN /\ stdout' = Append(stdout, StatusLine("Saving to", 0))
            /\ IF args.output_file = ""
                 THEN Raise("FileNotFoundError") /\ UNCHANGED fh
                 ELSE fh' = "open" /\ pc' = "loop_enter" /\ UNCHANGED err
       ELSE /\ stdout' = Append(stdout, StatusLine("Dumping to stdout", 0))
            /\ pc' = "loop_enter"
            /\ UNCHANGED <<err, fh>>
  /\ UNCHANGED <<args, num_samples_requested, train_ds, train_dataloader,
                 data_iterator, splits_read, print_threshold, file_content,
                 i, steps, prev>>

\* range(args.sample_id_range[0], args.sample_id_range[1])
LoopEnter ==
  /\ pc = "loop_enter"
  /\ IF Len(args.sample_id_range) < 2
       THEN Raise("IndexError") /\ UNCHANGED i
       ELSE /\ i' = args.sample_id_range[1]
            /\ pc' = IF args.sample_id_range[1] < args.sample_id_range[2]
                       THEN "loop" ELSE "finish"
            /\ UNCHANGED err
  /\ UNCHANGED <<args, num_samples_requested, train_ds, train_dataloader,
                 data_iterator, splits_read, print_threshold, fh, file_content,
                 stdout, steps, prev>>

LoopMessagesElif(label, tokens, a, threshold) ==
  IF a.print_tokens
    THEN <<Record(label, TensorStr(tokens, threshold))>>
    ELSE IF a.print_text THEN <<Record(label, Detokenize(tokens))>> ELSE <<>>
\* The loop body's two prints: the token record, then the text record.
LoopMessages(label, tokens, a, threshold) ==
  (IF a.print_tokens
     THEN <<Record(label, TensorStr(tokens, threshold))>>
     ELSE <<>>)
    \o (IF a.print_text THEN <<Record(label, Detokenize(tokens))>> ELSE <<>>)

\* def write(msg): to the file if args.output_file, else to stdout.
Write(msgs, out, file) ==
  IF args.output_file # None /\ args.output_file # ""
    THEN <<out, file \o msgs>>
    ELSE <<out \o msgs, file>>

\* One pass of the loop body: next(data_iterator), then the prints.
LoopStep ==
  /\ pc = "loop"
  /\ LET ds == data_iterator.ds
         b  == train_dataloader.batch
     IN IF data_iterator.pos + b <= ds.len
          THEN LET tokens == SampleAt(ds, data_iterator.pos)
                   w      == Write(LoopMessages(i, tokens, args, print_threshold),
                                   stdout, file_content)
               IN /\ data_iterator' = [data_iterator EXCEPT !.pos = @ + b]
                  /\ splits_read' = splits_read \cup {ds.split}
                  /\ stdout' = w[1]
                  /\ file_content' = w[2]
                  /\ i' = i + 1
                  /\ steps' = steps + 1
                  /\ pc' = IF i + 1 < args.sample_id_range[2]
                             THEN "loop" ELSE "finish"
                  /\ UNCHANGED err
          ELSE /\ Raise("StopIteration")
               /\ UNCHANGED <<data_iterator, splits_read, stdout, file_content,
                              i, steps>>
  /\ UNCHANGED <<args, num_samples_requested, train_ds, train_dataloader,
                 print_threshold, fh, prev>>

Finish ==
  /\ pc = "finish"
  /\ LET n == args.sample_id_range[2] - args.sample_id_range[1]
     IN stdout' =
          (IF args.output_file # None
             THEN Append(stdout, StatusLine("Output saved in", 0))
             ELSE stdout)
            \o <<StatusLine("records dumped", n)>>
  /\ fh' = IF args.output_file # None THEN "closed" ELSE fh
  /\ pc' = "done"
  /\ UNCHANGED <<args, err, num_samples_requested, train_ds, train_dataloader,
                 data_iterator, splits_read, print_threshold, file_content,
                 i, steps, prev>>

\* The operator runs the script a second time: same seed, train-samples,
\* seq-length, data, --sample-id-range and print flags; the output file and
\* the --micro-batch-size on the command line are whatever they pass now.
Rerun ==
  /\ pc \in {"done", "error"}
  /\ prev = NoRun
  /\ prev' = [pc |-> pc, err |-> err, records |-> Records(stdout, file_content),
               output_file |-> args.output_file, user_mbs |-> args.user_mbs]
  /\ \E f \in OutputFiles, m \in UserBatchSizes :
        args' = [args EXCEPT !.output_file = f, !.user_mbs = m]
  /\ pc' = "check_print"
  /\ err' = None
  /\ num_samples_requested' = <<>>
  /\ train_ds' = NoDs
  /\ train_dataloader' = NoDs
  /\ data_iterator' = NoDs
  /\ splits_read' = {}
  /\ print_threshold' = 1000
  /\ fh' = "none"
  /\ file_content' = <<>>
  /\ stdout' = <<>>
  /\ i' = -1
  /\ steps' = 0

Next ==
  \/ CheckPrintFlags
  \/ CheckAllTokens
  \/ BuildDatasets
  \/ BuildLoader
  \/ SetPrintOptions
  \/ OpenOutput
  \/ LoopEnter
  \/ LoopStep
  \/ Finish

Spec == Init /\ [][Next]_vars

\* Two runs, one after the other.
NextPair == Next \/ Rerun

SpecPair == Init /\ [][NextPair]_vars

\* -------------------------------------------------------------- claims
RecordsNow == Records(stdout, file_content)
RangeStart == args.sample_id_range[1]
NumFlags == (IF args.print_tokens THEN 1 ELSE 0) + (IF args.print_text THEN 1 ELSE 0)
\* The train dataset the arguments determine, and its sample at position idx.
ExpectedSample(idx) ==
  SampleAt([seed |-> args.seed, num_samples |-> args.train_samples,
            seq_length |-> args.seq_length], idx)
NothingBuiltOrWritten ==
  /\ num_samples_requested = <<>>
  /\ train_ds = NoDs
  /\ train_dataloader = NoDs
  /\ fh = "none"
  /\ stdout = <<>>
  /\ file_content = <<>>
InLoopOrAfter == pc \in {"loop", "finish", "done"}

\* C1: the loader is fast-forwarded to consumed_samples = sample_id_range[0]
\* with a batch of one sample, the k-th loop step (k = 0, 1, ...) is labelled
\* a + k and takes the sample at position a + k, and every record written with
\* label l holds (as tokens or as text) the sample at position l of the
\* training ordering.
C1_RecordIsSampleAtLabel ==
  /\ train_dataloader # NoDs =>
       /\ train_dataloader.consumed_samples = RangeStart
       /\ train_dataloader.batch = 1
  /\ InLoopOrAfter => i = RangeStart + steps
  /\ \A n \in 1..Len(RecordsNow) :
       LET r == RecordsNow[n]
       IN /\ r.label = RangeStart + ((n - 1) \div NumFlags)
          /\ r.body \in {TensorStr(ExpectedSample(r.label), print_threshold),
                         Detokenize(ExpectedSample(r.label))}

C1_Witness ==
  /\ pc = "done"
  /\ RangeStart >= 1
  /\ Len(RecordsNow) >= 2
  /\ args.user_mbs = 2

\* C2: with neither --print-tokens nor --print-text the run ends in
\* ValueError at the first check, before the dataset is built, the output
\* file opened or any record or status line written; whenever a record has
\* been written, one of the two flags is set.
C2_NoPrintFlagRaisesFirst ==
  /\ (~args.print_tokens /\ ~args.print_text) =>
       /\ pc \in {"check_print", "error"}
       /\ pc = "error" => err = "ValueError"
       /\ NothingBuiltOrWritten
  /\ RecordsNow # <<>> => (args.print_tokens \/ args.print_text)

C2_Witness ==
  /\ ~args.print_tokens /\ ~args.print_text
  /\ args.output_file = "out.txt"
  /\ pc = "error"
  /\ err = "ValueError"

\* C3: with --all-tokens and no --print-tokens the run ends in ValueError
\* before the dataset is built and before any output, --print-text or not;
\* in every run that reaches the dump loop, all_tokens implies print_tokens.
C3_AllTokensNeedsPrintTokens ==
  /\ (args.all_tokens /\ ~args.print_tokens) =>
       /\ pc \in {"check_print", "check_all", "error"}
       /\ pc = "error" => err = "ValueError"
       /\ NothingBuiltOrWritten
  /\ (pc = "loop_enter" \/ InLoopOrAfter) => (args.all_tokens => args.print_tokens)

C3_Witness ==
  /\ args.all_tokens /\ ~args.print_tokens /\ args.print_text
  /\ pc = "error"
  /\ err = "ValueError"

\* C4: with --sample-id-range a b (a < b, as in the documented 5 15), a run
\* that completes has written a record for every sample index from a up to
\* and including b, and for no other.
C4_RangeIsInclusive ==
  (/\ pc = "done"
   /\ Len(args.sample_id_range) = 2
   /\ args.sample_id_range[1] < args.sample_id_range[2]) =>
     {RecordsNow[n].label : n \in 1..Len(RecordsNow)}
        = args.sample_id_range[1]..args.sample_id_range[2]

C6_OnlyTrainSplit ==
  /\ num_samples_requested \in {<<>>, <<args.train_samples, 0, 0>>}
  /\ train_ds # NoDs =>
       /\ num_samples_requested = <<args.train_samples, 0, 0>>
       /\ train_ds.split = "train"
       /\ train_ds.num_samples = args.train_samples
  /\ data_iterator # NoDs => data_iterator.ds.split = "train"
  /\ splits_read \subseteq {"train"}

C6_Witness ==
  /\ pc = "done"
  /\ splits_read = {"train"}
  /\ args.train_samples = 2
  /\ args.sample_id_range[2] > args.train_samples

\* C7: after k loop steps the iterator has advanced exactly k times, and the
\* records are those of the labels a, a+1, ..., a+k-1 in this order: with both
\* flags two per label, the token record immediately followed by the text
\* record of the same sample; with one flag one per label.
C7_LoopOutputShape ==
  /\ data_iterator # NoDs => data_iterator.pos = RangeStart + steps
  /\ Len(RecordsNow) = NumFlags * steps
  /\ \A k \in 1..steps :
       LET l == RangeStart + k - 1
       IN IF args.print_tokens /\ args.print_text
            THEN /\ RecordsNow[2 * k - 1].label = l
                 /\ RecordsNow[2 * k - 1].body.fmt = "tensor"
                 /\ RecordsNow[2 * k].label = l
                 /\ RecordsNow[2 * k].body.fmt = "text"
                 /\ ~RecordsNow[2 * k - 1].body.elided =>
                      RecordsNow[2 * k].body = Detokenize(RecordsNow[2 * k - 1].body.items)
            ELSE /\ RecordsNow[k].label = l
                 /\ RecordsNow[k].body.fmt =
                      (IF args.print_tokens THEN "tensor" ELSE "text")

C7_Witness ==
  /\ pc = "done"
  /\ args.print_tokens /\ args.print_text
  /\ steps >= 2
  /\ Len(RecordsNow) = 4
====
